---- MODULE Spec2Model ----
(***************************************************************************)
(* Vibration-exposure firmware (darkkouta/acelerometrotst).                *)
(*                                                                         *)
(* The repository holds several near-duplicate Arduino sketches.  Each is  *)
(* modelled as one value of the variable `sketch`:                         *)
(*   "ino" : src/acelerometroTST.ino                                       *)
(*   "p2"  : src/unnamed/part_002                                          *)
(*   "p3"  : src/unnamed/part_003   (30 s countdown)                       *)
(*   "p4"  : src/unnamed/part_004   (60 s countdown)                       *)
(*   "p5"  : src/unnamed/part_005   (ADXL345, no session)                  *)
(* A sketch is chosen at boot and never changes.  The globals initialised, *)
(* setup() runs (pc = "setup"): it goes on to loop() if the sensor         *)
(* answers, and spins in while (1) for ever if it does not                 *)
(* (pc = "halted").  One iteration of loop() is two steps:                 *)
(* server.handleClient() (pc = "handleClient": one request handler or      *)
(* none) and the rest of loop() (pc = "body").                             *)
(*                                                                         *)
(* Time.  `millis` is the clock millis() reads.  It advances by the length  *)
(* of an iteration of loop() that samples; no sketch reads the clock while *)
(* Idle (a start re-bases countdown_start_time), so time spent Idle is not *)
(* modelled.  `last` is a history variable; `resp` is the last response.   *)
(*                                                                         *)
(* Numbers.  C floats are modelled as exact values:                        *)
(*   - a rational <<n, d>> in lowest terms, d > 0 (sums, averages, Texp);  *)
(*   - a "surd" [k, s, sq] for ARE and AREN: kind k in {"fin","inf","nan"},*)
(*     sign s in {-1,0,1} and, for a finite value, the rational square sq  *)
(*     of its magnitude (so sqrt() is exact);                              *)
(*   - Dy, which needs pow(.,-1.06), as the symbolic product [k, c, b]     *)
(*     = c * b^(-1.06), with the IEEE special cases of pow() evaluated.    *)
(*     The model does not compute the float pow() returns: where the .ino  *)
(*     needs its value (the calendar breakdown) it is one of DyFloats.     *)
(* unsigned long is 32 bits wide on the ESP32 and TLC's integers are 32    *)
(* bits wide too, so an unsigned long u is held as the integer v of least  *)
(* magnitude with v = u (mod 2^32): 0 <= v stands for u = v, and v < 0 for *)
(* the wrapped value u = 2^32 + v.  Sums and differences of such integers  *)
(* are the unsigned ones; "u <= 0" on an unsigned long is v = 0.           *)
(***************************************************************************)
EXTENDS Integers, Sequences, FiniteSets, TLC

\* ---------------------------------------------------------------- bounds
\* Largest value the clock millis() takes in the model.
MaxMillis == 60000
\* Largest clock value in the 1 Hz scenario.
MaxMillis1Hz == 125000
\* Largest clock value in the scenario of the running loop.
MaxMillisLive == 91000
\* Largest clock value in the scenario of the unit readings.
MaxMillisFold == 20000

\* ------------------------------------------------------ program constants
\* const float T_0 = 8.0 (the literal 8 in the .ino)
T_0 == 8
\* countdown_time's initial / reset value in part_003
Countdown_p3 == 30
\* countdown_time's initial / reset value in part_004
Countdown_p4 == 60
\* delay(500) in part_003's loop
Delay_p3 == 500
\* #define SAMPLES 128 in part_005
SAMPLES == 128
\* The largest and the smallest int (32 bits on the ESP32).
INT_MAX == 2147483647
INT_MIN == -INT_MAX - 1

\* ------------------------------------------------------------- rationals
Abs(n) == IF n < 0 THEN -n ELSE n

\* Euclid's algorithm.  The operands are bound to their values (x, y), so
\* that each is evaluated once.
RECURSIVE GCD(_, _)
GCD(a, b) ==
  CHOOSE g \in {IF y = 0 THEN x ELSE GCD(y, x % y) : x \in {a}, y \in {b}} :
    TRUE

\* The rational n/d (d # 0) in lowest terms with a positive denominator
\* (n and d bound to their values p and q).
Rat(n, d) ==
  LET Reduced(p, q) ==
        LET sg == IF q < 0 THEN -1 ELSE 1
        IN  CHOOSE r \in {<<(sg * p) \div g, (sg * q) \div g>> :
                          g \in {GCD(Abs(p), Abs(q))}} : TRUE
  IN  CHOOSE r \in {Reduced(p, q) : p \in {n}, q \in {d}} : TRUE

RInt(n) == <<n, 1>>
RZero == <<0, 1>>
\* a + b and a - b over the least common denominator
RAdd(a, b) ==
  LET g == GCD(a[2], b[2])
  IN  Rat(a[1] * (b[2] \div g) + b[1] * (a[2] \div g), a[2] * (b[2] \div g))
RSub(a, b) == RAdd(a, <<-b[1], b[2]>>)
RMul(a, b) == Rat(a[1] * b[1], a[2] * b[2])
\* a / b for b # 0
RDiv(a, b) == Rat(a[1] * b[2], a[2] * b[1])
RLt(a, b) == a[1] * b[2] < b[1] * a[2]
RSign(a) == IF a[1] > 0 THEN 1 ELSE IF a[1] < 0 THEN -1 ELSE 0
\* fabs(a) and fmax(a, b)
RAbs(a) == <<Abs(a[1]), a[2]>>
RMax(a, b) == IF RLt(a, b) THEN b ELSE a
\* floor(a), and round(a): the nearest integer, halves away from zero
Floor(a) == a[1] \div a[2]
Round(a) ==
  IF a[1] >= 0 THEN (2 * a[1] + a[2]) \div (2 * a[2])
  ELSE -((2 * (-a[1]) + a[2]) \div (2 * a[2]))

\* ----------------------------------------------------------------- surds
Fin(s, sq) == [k |-> "fin", s |-> IF sq = RZero THEN 0 ELSE s, sq |-> sq]
Inf(s) == [k |-> "inf", s |-> s, sq |-> RZero]
NaN == [k |-> "nan", s |-> 0, sq |-> RZero]
SZero == Fin(0, RZero)
\* The float r as a surd.
OfRat(r) == Fin(RSign(r), RMul(r, r))

\* sqrt(r) of a float r: NaN below zero.
Sqrt(r) == IF RSign(r) < 0 THEN NaN ELSE Fin(RSign(r), r)

\* a * b in IEEE arithmetic.
SMul(a, b) ==
  IF a.k = "nan" \/ b.k = "nan" THEN NaN
  ELSE IF a.k = "inf" \/ b.k = "inf"
       THEN IF a.s = 0 \/ b.s = 0 THEN NaN ELSE Inf(a.s * b.s)
       ELSE Fin(a.s * b.s, RMul(a.sq, b.sq))

\* a / b in IEEE arithmetic (the sign of a zero is not kept: x / 0 = +inf
\* for x > 0, as for the positive zero the sketches produce).
SDiv(a, b) ==
  IF a.k = "nan" \/ b.k = "nan" THEN NaN
  ELSE IF a.k = "inf"
       THEN IF b.k = "inf" THEN NaN
            ELSE Inf(IF b.s = 0 THEN a.s ELSE a.s * b.s)
       ELSE IF b.k = "inf" THEN SZero
            ELSE IF b.s = 0
                 THEN IF a.s = 0 THEN NaN ELSE Inf(a.s)
                 ELSE Fin(a.s * b.s, RDiv(a.sq, b.sq))

\* a > r for a surd a and a float constant r >= 0; false for NaN.
SGreater(a, r) ==
  CASE a.k = "nan" -> FALSE
    [] a.k = "inf" -> a.s > 0
    [] OTHER -> a.s > 0 /\ RLt(RMul(r, r), a.sq)

\* ------------------------------------------------------- pow(b, -1.06)
\* pow(b, -1.06) times the coefficient c, as libm computes it:
\*   pow(0, y<0) = +inf, pow(x<0, non-integer) = NaN, pow(+-inf, y<0) = 0.
PowNeg106Times(c, b) ==
  LET p == CASE b.k = "nan" -> NaN
             [] b.k = "inf" -> SZero
             [] b.s = 0 -> Inf(1)
             [] b.s < 0 -> NaN
             [] OTHER -> Fin(1, <<1, 1>>)   \* some positive finite power
      m == SMul(c, p)
  IN  IF m.k = "fin" /\ m.s # 0
      THEN [k |-> "pow", s |-> m.s, c |-> c, b |-> b]
      ELSE [k |-> IF m.k = "fin" THEN "zero" ELSE m.k, s |-> m.s,
            c |-> SZero, b |-> SZero]

\* The float 0.0 as a value of Dy.
DyZero == [k |-> "zero", s |-> 0, c |-> SZero, b |-> SZero]

\* sqrt(x^2 + y^2 + z^2) of three floats.
Resultant(v) ==
  Sqrt(RAdd(RMul(v[1], v[1]), RAdd(RMul(v[2], v[2]), RMul(v[3], v[3]))))

\* Component-wise sum of two triples, and a triple divided by an int n > 0.
VAdd(u, v) == <<RAdd(u[1], v[1]), RAdd(u[2], v[2]), RAdd(u[3], v[3])>>
VDivInt(u, n) ==
  <<RDiv(u[1], RInt(n)), RDiv(u[2], RInt(n)), RDiv(u[3], RInt(n))>>
VZero == <<RZero, RZero, RZero>>

\* ---------------------------------------------------------------- inputs
Sketches == {"ino", "p2", "p3", "p4", "p5"}

\* What one sensor event can read (m/s^2).
Samples ==
  { VZero,
    <<RInt(3), RInt(4), RZero>>,
    <<Rat(23, 20), RZero, RZero>> }

\* A request argument that is not there (hasArg() is false).
Absent == <<>>

\* The Texp argument of a set-time request: absent, or the float that
\* toFloat() / doc["Texp"] yields (0 for text that is not a number).
TexpArgs == {Absent, RInt(0), RInt(8), RInt(-2)}

\* The offsets of a set-offsets request: absent, or three floats.
OffsetArgs == {Absent, VZero, <<RInt(1), RInt(1), RZero>>}

\* The float that 31.8 * pow(AREN, -1.06) yields in the .ino where it is
\* positive and finite (31.8 is its value at AREN = 1).
DyFloats == {Rat(318, 10), Rat(1973, 5)}

\* How long one iteration of loop() can take while Reading (ms).
TickMs == {30000, 60000}

\* ----------------------------------------------------------------- state
VARIABLES
  sketch,               \* which sketch runs
  pc,                   \* "setup", "halted", or the position in loop():
                        \* "handleClient" or "body"
  millis,               \* the clock millis() reads
  isReading,
  countdown_active,
  countdown_time,       \* unsigned long
  countdown_start_time, \* unsigned long
  last_update_time,     \* unsigned long (.ino only)
  offset,               \* <<offsetX, offsetY, offsetZ>>
  accel,                \* <<accelX, accelY, accelZ>>, the latest reading
  accel_sum,            \* <<accelX_sum, accelY_sum, accelZ_sum>>
  measurement_count,
  accel_avg,            \* <<accelX_avg, accelY_avg, accelZ_avg>>
  ARE,
  AREN,
  Dy,
  tempo,                \* .ino: [dy, anos, meses, dias], dy being the value
                        \* of the float Dy where Dy is finite
  dados,                \* part_005: [am, cf, pico] of struct DadosVibracao
  captured,             \* part_005: the sensor reads that the last
                        \* iteration of loop() made to fill vReal
  Texp,
  resp,                 \* the last response sent
  last                  \* history: the kind of the last operation that
                        \* acted: "start", "stop", "tick", "expiry", "data",
                        \* "reset" or "other"

session == <<isReading, countdown_active, countdown_time,
             countdown_start_time, last_update_time>>
window == <<accel_sum, measurement_count>>
metrics == <<accel, accel_avg, ARE, AREN, Dy, tempo>>
config == <<offset, Texp>>
vibracao == <<dados, captured>>
vars == <<sketch, pc, millis, session, window, metrics, config, vibracao,
          resp, last>>

\* ------------------------------------------------------------ responses
NoResp == [status |-> 0, alertaHAV |-> "", alertaWBV |-> ""]
Plain(code) == [status |-> code, alertaHAV |-> "", alertaWBV |-> ""]

LIMITE_AREN_HAV == RInt(5)
LIMITE_AREN_WBV == Rat(23, 20)

\* AREN > LIMITE_AREN_HAV ? "Exposicao excessiva ..." : "Dentro do limite ..."
AlertaHAV_ge(aren) ==
  IF SGreater(aren, LIMITE_AREN_HAV) \/ aren = OfRat(LIMITE_AREN_HAV)
  THEN "excessiva" ELSE "dentro"
AlertaHAV(aren) ==
  IF SGreater(aren, LIMITE_AREN_HAV) THEN "excessiva" ELSE "dentro"
AlertaWBV(aren) ==
  IF SGreater(aren, LIMITE_AREN_WBV) THEN "excessiva" ELSE "dentro"

\* --------------------------------------------------------- the formulas
\* AREN = ARE * sqrt(Texp / 8)
ino_AREN(are, texp) == SMul(are, Sqrt(RDiv(texp, RInt(T_0))))
\* AREN = ARE * sqrt(Texp / 8.0)
p2_AREN(are, texp) == SMul(are, Sqrt(RDiv(texp, RInt(T_0))))
\* AREN = ARE / (Texp / T_0)
p3_AREN(are, texp) == SDiv(are, OfRat(RDiv(texp, RInt(T_0))))
\* AREN = ARE * (Texp / T_0)
p4_AREN(are, texp) == SMul(are, OfRat(RDiv(texp, RInt(T_0))))
\* Dy = 31.8 * pow(AREN, -1.06)
ino_Dy(aren) == PowNeg106Times(OfRat(Rat(318, 10)), aren)
\* Dy = 31.8 * pow(AREN, -1.06)
p2_Dy(aren) == PowNeg106Times(OfRat(Rat(318, 10)), aren)
\* Dy = pow(AREN, -1.06)
p3_Dy(aren) == PowNeg106Times(OfRat(RInt(1)), aren)
\* Dy = AREN * pow(Texp, -1.06)
p4_Dy(aren, texp) == PowNeg106Times(aren, OfRat(texp))

\* (millis() - countdown_start_time) / 1000 on unsigned long
\* (the clock never runs backwards in the model, so now - start >= 0)
ElapsedSeconds_tenths(now, start) == (now - start) \div 100
ElapsedSeconds(now, start) == (now - start) \div 1000

\* a - b on unsigned long: below zero it wraps to 2^32 + (a - b)
USub(a, b) == a - b

\* offsetX = ..; offsetY = ..; offsetZ = ..: the offsets after the handler
\* of a set-offsets request carrying o has run, old being the ones before.
OffsetsAfter_xOnly(old, o) == <<o[1], old[2], old[3]>>
OffsetsAfter(old, o) == <<o[1], o[2], o[3]>>

\* ------------------------------------------------------------------ boot
Init ==
  /\ sketch \in Sketches
  /\ pc = "setup"
  /\ millis = 0
  /\ isReading = FALSE
  /\ countdown_active = FALSE
  /\ countdown_time = IF sketch = "p4" THEN Countdown_p4 ELSE Countdown_p3
  /\ countdown_start_time = 0
  /\ last_update_time = 0
  /\ offset = VZero
  /\ accel = VZero
  /\ accel_sum = VZero
  /\ measurement_count = 0
  /\ accel_avg = VZero
  /\ ARE = SZero
  /\ AREN = SZero
  /\ Dy = DyZero
  /\ tempo = [dy |-> RZero, anos |-> 0, meses |-> 0, dias |-> 0]
  /\ dados = [am |-> SZero, cf |-> SZero, pico |-> RZero]
  /\ captured = 0
  /\ Texp = RInt(1)
  /\ resp = NoResp
  /\ last = "other"

\* setup(): mpu.begin() / adxl.begin() answers ok.  On failure every sketch
\* stays in while (1) and never reaches loop(): no step leaves "halted".
setup(ok) ==
  /\ pc = "setup"
  /\ pc' = IF ok THEN "handleClient" ELSE "halted"
  /\ UNCHANGED <<sketch, millis, session, window, metrics, config, vibracao,
                 resp, last>>

\* A handler ran: loop() goes on to its body.
Served(r, op) ==
  /\ pc = "handleClient"
  /\ pc' = "body"
  /\ resp' = r
  /\ last' = op
  /\ UNCHANGED <<sketch, millis, vibracao>>

\* handleClient() found no request.
NoRequest ==
  /\ pc = "handleClient"
  /\ pc' = "body"
  /\ UNCHANGED <<sketch, millis, session, window, metrics, config, vibracao,
                 resp, last>>

\* ------------------------------------------------- src/acelerometroTST.ino
\* GET /data: reads the sensor three times and sends the snapshot.
ino_data ==
  /\ sketch = "ino"
  /\ Served(Plain(200), "data")
  /\ UNCHANGED <<session, window, metrics, config>>

\* POST /start_readings
ino_start_readings ==
  /\ sketch = "ino"
  /\ isReading' = TRUE
  /\ measurement_count' = 0
  /\ Served(Plain(200), "start")
  /\ UNCHANGED <<countdown_active, countdown_time, countdown_start_time,
                 last_update_time, accel_sum, metrics, config>>

\* POST /stop_readings
ino_stop_readings ==
  /\ sketch = "ino"
  /\ isReading' = FALSE
  /\ Served(Plain(200), "stop")
  /\ UNCHANGED <<countdown_active, countdown_time, countdown_start_time,
                 last_update_time, window, metrics, config>>

\* POST /reset_averages
ino_reset_averages ==
  /\ sketch = "ino"
  /\ accel_sum' = VZero
  /\ measurement_count' = 0
  /\ Dy' = DyZero
  /\ tempo' = [dy |-> RZero, anos |-> 0, meses |-> 0, dias |-> 0]
  /\ Served(Plain(200), "reset")
  /\ UNCHANGED <<session, accel, accel_avg, ARE, AREN, config>>

\* POST /set_time with body {"Texp": t}
ino_set_time(t) ==
  /\ sketch = "ino"
  /\ Texp' = IF t # Absent THEN t ELSE Texp
  /\ Served(Plain(200), "other")
  /\ UNCHANGED <<session, window, metrics, offset>>

\* POST /set_offsets with body {"offsetX": .., "offsetY": .., "offsetZ": ..}
ino_set_offsets(o) ==
  /\ sketch = "ino"
  /\ offset' = IF o # Absent THEN OffsetsAfter(offset, o) ELSE offset
  /\ Served(Plain(200), "other")
  /\ UNCHANGED <<session, window, metrics, Texp>>

\* anos = floor(Dy / 365); meses = floor((Dy - anos * 365) / 30);
\* dias = round(Dy - anos * 365 - meses * 30), for a finite float dy.
Breakdown(dy) ==
  LET anos == Floor(RDiv(dy, RInt(365)))
      meses == Floor(RDiv(RSub(dy, RInt(anos * 365)), RInt(30)))
      dias == Round(RSub(RSub(dy, RInt(anos * 365)), RInt(meses * 30)))
  IN  [dy |-> dy, anos |-> anos, meses |-> meses, dias |-> dias]

\* What the three assignments to anos, meses and dias can leave for the
\* Dy just computed.  Converting an infinite or NaN value to int is
\* undefined: Dy - anos * 365 is infinite or NaN again, so all three
\* conversions get the same operand and yield the same int, which is the
\* largest, the smallest, or 0, depending on the conversion routine.
ino_tempo(D) ==
  CASE D.k = "pow" -> {Breakdown(dy) : dy \in DyFloats}
    [] D.k = "zero" -> {Breakdown(RZero)}
    [] OTHER -> {[dy |-> RZero, anos |-> x, meses |-> x, dias |-> x] :
                 x \in {INT_MIN, 0, INT_MAX}}

\* The countdown block of loop(): nothing in the sketch sets
\* countdown_active, so the block never runs.
ino_countdown ==
  IF countdown_active /\ millis - last_update_time >= 1000
  THEN /\ last_update_time' = millis
       /\ countdown_time' = USub(countdown_time, 1)
       /\ countdown_active' = (countdown_time' # 0)
       /\ UNCHANGED <<isReading, countdown_start_time>>
  ELSE UNCHANGED session

\* loop() after handleClient(), the iteration taking d ms.  getAccelX/Y/Z
\* each read the sensor, so the three axes come from three events sx, sy
\* and sz; accelX, accelY and accelZ are locals.
ino_loop(d, sx, sy, sz) ==
  /\ sketch = "ino"
  /\ pc = "body"
  /\ pc' = "handleClient"
  /\ IF isReading
     THEN /\ LET a == VAdd(<<sx[1], sy[2], sz[3]>>, offset)
                   sum == VAdd(accel_sum, a)
                   n == measurement_count + 1
                   are == Resultant(a)
                   aren == ino_AREN(are, Texp)
               IN  /\ accel_sum' = sum
                   /\ measurement_count' = n
                   /\ IF n > 0
                      THEN /\ accel_avg' = VDivInt(sum, n)
                           /\ ARE' = are
                           /\ AREN' = aren
                           /\ Dy' = ino_Dy(aren)
                           /\ tempo' \in ino_tempo(Dy')
                      ELSE UNCHANGED <<accel_avg, ARE, AREN, Dy, tempo>>
          /\ ino_countdown
          /\ millis' = millis + d
          /\ last' = "tick"
     ELSE UNCHANGED <<millis, session, window, accel_avg, ARE, AREN, Dy, tempo,
                      last>>
  /\ UNCHANGED <<sketch, accel, config, vibracao, resp>>

\* -------------------------------------------------- src/unnamed/part_002
\* POST /start_readings
p2_start_readings ==
  /\ sketch = "p2"
  /\ isReading' = TRUE
  /\ Served(Plain(200), "start")
  /\ UNCHANGED <<countdown_active, countdown_time, countdown_start_time,
                 last_update_time, window, metrics, config>>

\* POST /stop_readings
p2_stop_readings ==
  /\ sketch = "p2"
  /\ isReading' = FALSE
  /\ Served(Plain(200), "stop")
  /\ UNCHANGED <<countdown_active, countdown_time, countdown_start_time,
                 last_update_time, window, metrics, config>>

\* The offset in g, converted to m/s^2 (offsetX * 9.81).
p2_OffsetMs2(o) ==
  <<RMul(o[1], Rat(981, 100)), RMul(o[2], Rat(981, 100)),
    RMul(o[3], Rat(981, 100))>>

\* GET /get_readings: reads the sensor and computes the metrics if Reading.
p2_get_readings ==
  /\ sketch = "p2"
  /\ IF isReading
     THEN \E s \in Samples :
            LET o == p2_OffsetMs2(offset)
                a == <<RSub(s[1], o[1]), RSub(s[2], o[2]), RSub(s[3], o[3])>>
                are == Resultant(a)
                aren == p2_AREN(are, Texp)
            IN  /\ ARE' = are
                /\ AREN' = aren
                /\ Dy' = p2_Dy(aren)
     ELSE UNCHANGED <<ARE, AREN, Dy>>
  /\ Served(Plain(200), "data")
  /\ UNCHANGED <<session, window, accel, accel_avg, tempo, config>>

\* POST /set_time?Texp=t
p2_set_time(t) ==
  /\ sketch = "p2"
  /\ Texp' = IF t # Absent THEN t ELSE Texp
  /\ Served(Plain(IF t # Absent THEN 200 ELSE 400), "other")
  /\ UNCHANGED <<session, window, metrics, offset>>

\* POST /set_offsets?offsetX=..&offsetY=..&offsetZ=..
p2_set_offsets(o) ==
  /\ sketch = "p2"
  /\ offset' = IF o # Absent THEN OffsetsAfter(offset, o) ELSE offset
  /\ Served(Plain(IF o # Absent THEN 200 ELSE 400), "other")
  /\ UNCHANGED <<session, window, metrics, Texp>>

\* loop() after handleClient(): a debug print only.
p2_loop ==
  /\ sketch = "p2"
  /\ pc = "body"
  /\ pc' = "handleClient"
  /\ UNCHANGED <<sketch, millis, session, window, metrics, config, vibracao,
                 resp, last>>

\* -------------------------------------------------- src/unnamed/part_003
\* GET /data: the snapshot with its two alerts.
p3_data ==
  /\ sketch = "p3"
  /\ Served([status |-> 200, alertaHAV |-> AlertaHAV(AREN),
             alertaWBV |-> AlertaWBV(AREN)], "data")
  /\ UNCHANGED <<session, window, metrics, config>>

\* POST /set_time?Texp=t
p3_set_time(t) ==
  /\ sketch = "p3"
  /\ Texp' = IF t # Absent THEN t ELSE Texp
  /\ Served(Plain(303), "other")
  /\ UNCHANGED <<session, window, metrics, offset>>

\* resetMeasurement()
p3_resetMeasurement ==
  /\ accel_sum' = VZero
  /\ measurement_count' = 0
  /\ accel_avg' = VZero
  /\ ARE' = SZero
  /\ AREN' = SZero
  /\ Dy' = DyZero

\* POST /start_stop
p3_start_stop ==
  /\ sketch = "p3"
  /\ isReading' = ~isReading
  /\ IF isReading'
     THEN /\ countdown_start_time' = millis
          /\ countdown_active' = TRUE
          /\ UNCHANGED <<window, accel_avg, ARE, AREN, Dy>>
     ELSE /\ p3_resetMeasurement
          /\ UNCHANGED <<countdown_start_time, countdown_active>>
  /\ Served(Plain(303), IF isReading' THEN "start" ELSE "stop")
  /\ UNCHANGED <<countdown_time, last_update_time, accel, tempo, config>>

\* isReading after the countdown has run out (isReading = false)
p3_ReadingAfterExpiry_flagOnly == TRUE
p3_ReadingAfterExpiry == FALSE

\* loop() after handleClient(), the iteration taking d ms and the sensor
\* reading s: readSensorData(), delay(500) and the countdown.
p3_loop(d, s) ==
  /\ sketch = "p3"
  /\ pc = "body"
  /\ pc' = "handleClient"
  /\ IF isReading
     THEN \E sum \in {VAdd(accel_sum, s)}, are \in {Resultant(s)} :
          \E aren \in {p3_AREN(are, Texp)} :
            LET now == millis + d
                n == measurement_count + 1
                left == USub(countdown_time,
                             ElapsedSeconds(now, countdown_start_time))
            IN  /\ d >= Delay_p3
                /\ millis' = now
                /\ accel' = s
                /\ IF countdown_active /\ left = 0
                   THEN /\ isReading' = p3_ReadingAfterExpiry
                        /\ p3_resetMeasurement
                        /\ countdown_active' = FALSE
                        /\ countdown_time' = Countdown_p3
                        /\ last' = "expiry"
                        /\ UNCHANGED countdown_start_time
                   ELSE /\ accel_sum' = sum
                        /\ measurement_count' = n
                        /\ accel_avg' = VDivInt(sum, n)
                        /\ ARE' = are
                        /\ AREN' = aren
                        /\ Dy' = p3_Dy(aren)
                        /\ last' = "tick"
                        /\ IF countdown_active
                           THEN /\ countdown_time' = left
                                /\ countdown_start_time' = now
                           ELSE UNCHANGED <<countdown_time,
                                            countdown_start_time>>
                        /\ UNCHANGED <<isReading, countdown_active>>
     ELSE UNCHANGED <<millis, session, window, accel, accel_avg, ARE, AREN, Dy,
                      last>>
  /\ UNCHANGED <<sketch, last_update_time, tempo, config, vibracao, resp>>

\* -------------------------------------------------- src/unnamed/part_004
\* GET /data: the snapshot with its two alerts.
p4_data ==
  /\ sketch = "p4"
  /\ Served([status |-> 200, alertaHAV |-> AlertaHAV(AREN),
             alertaWBV |-> AlertaWBV(AREN)], "data")
  /\ UNCHANGED <<session, window, metrics, config>>

\* POST /set_time?Texp=t (an empty argument counts as absent)
p4_set_time(t) ==
  /\ sketch = "p4"
  /\ Texp' = IF t # Absent THEN t ELSE Texp
  /\ Served(Plain(302), "other")
  /\ UNCHANGED <<session, window, metrics, offset>>

\* POST /start_stop
p4_start_stop ==
  /\ sketch = "p4"
  /\ isReading' = ~isReading
  /\ IF isReading'
     THEN /\ measurement_count' = 0
          /\ accel_sum' = VZero
          /\ countdown_active' = TRUE
          /\ countdown_start_time' = millis
          /\ UNCHANGED <<accel_avg, ARE, AREN, Dy>>
     ELSE /\ countdown_active' = FALSE
          /\ IF measurement_count > 0
             THEN LET avg == VDivInt(accel_sum, measurement_count)
                      are == Resultant(avg)
                      aren == p4_AREN(are, Texp)
                  IN  /\ accel_avg' = avg
                      /\ ARE' = are
                      /\ AREN' = aren
                      /\ Dy' = p4_Dy(aren, Texp)
             ELSE UNCHANGED <<accel_avg, ARE, AREN, Dy>>
          /\ UNCHANGED <<window, countdown_start_time>>
  /\ Served(Plain(302), IF isReading' THEN "start" ELSE "stop")
  /\ UNCHANGED <<countdown_time, last_update_time, accel, tempo, config>>

\* loop() after handleClient(), the iteration taking d ms and the sensor
\* reading s.
p4_loop(d, s) ==
  /\ sketch = "p4"
  /\ pc = "body"
  /\ pc' = "handleClient"
  /\ IF isReading
     THEN   LET now == millis + d
                left == USub(countdown_time,
                             ElapsedSeconds(now, countdown_start_time))
            IN  /\ millis' = now
                /\ accel' = s
                /\ accel_sum' = VAdd(accel_sum, s)
                /\ measurement_count' = measurement_count + 1
                /\ IF countdown_active
                   THEN /\ countdown_start_time' = now
                        /\ IF left = 0
                           THEN /\ isReading' = FALSE
                                /\ countdown_active' = FALSE
                                /\ countdown_time' = Countdown_p4
                                /\ last' = "expiry"
                           ELSE /\ countdown_time' = left
                                /\ last' = "tick"
                                /\ UNCHANGED <<isReading, countdown_active>>
                   ELSE /\ last' = "tick"
                        /\ UNCHANGED <<isReading, countdown_active,
                                       countdown_time, countdown_start_time>>
                /\ UNCHANGED <<accel_avg, ARE, AREN, Dy>>
     ELSE UNCHANGED <<millis, session, window, accel, accel_avg, ARE, AREN, Dy,
                      last>>
  /\ UNCHANGED <<sketch, last_update_time, tempo, config, vibracao, resp>>

\* -------------------------------------------------- src/unnamed/part_005
\* The /data and /setTexp routes stand after the closing brace of
\* configurarServidor() in the file; they are modelled as registered by it.
\* GET /data: the snapshot of dados.
p5_data ==
  /\ sketch = "p5"
  /\ Served(Plain(200), "data")
  /\ UNCHANGED <<session, window, metrics, config>>

\* POST /setTexp?texp=t
p5_setTexp(t) ==
  /\ sketch = "p5"
  /\ Texp' = IF t # Absent THEN t ELSE Texp
  /\ Served(Plain(200), "other")
  /\ UNCHANGED <<session, window, metrics, offset>>

\* sqrt(x * x + y * y + z * z) / sqrt(3)
calcularARE(v) == SDiv(Resultant(v), Sqrt(RInt(3)))

\* are / texp
calcularAREN(are, texp) == SDiv(are, OfRat(texp))

\* sqrt(x * x + y * y + z * z)
calcularAM(v) == Resultant(v)

\* am / are
calcularCF(am, are) == SDiv(am, are)

\* fmax(fabs(x), fmax(fabs(y), fabs(z)))
calcularPICO(v) == RMax(RAbs(v[1]), RMax(RAbs(v[2]), RAbs(v[3])))

\* The sensor reads of one call of calcularFrequenciaFFT(): the for loop
\* reads one event for each of the SAMPLES entries of vReal before it
\* returns.
calcularFrequenciaFFT_reads == SAMPLES

\* loop() after handleClient(), the sensor event reading s: the fields of
\* dados are recomputed on every iteration (there is no session), and the
\* frequency window is captured before loop() returns.  `accel` keeps the
\* event, a local of loop().
p5_loop(s) ==
  /\ sketch = "p5"
  /\ pc = "body"
  /\ pc' = "handleClient"
  /\ accel' = s
  /\ ARE' = calcularARE(s)
  /\ AREN' = calcularAREN(ARE', Texp)
  /\ dados' = [am |-> calcularAM(s),
               cf |-> calcularCF(calcularAM(s), ARE'),
               pico |-> calcularPICO(s)]
  /\ captured' = calcularFrequenciaFFT_reads
  /\ last' = "tick"
  /\ UNCHANGED <<sketch, millis, session, window, accel_avg, Dy, tempo,
                 config, resp>>

\* ------------------------------------------------------ the whole system
\* One request handler of the running sketch.
Request ==
  \/ ino_data
  \/ ino_start_readings
  \/ ino_stop_readings
  \/ ino_reset_averages
  \/ \E t \in TexpArgs : ino_set_time(t)
  \/ \E o \in OffsetArgs : ino_set_offsets(o)
  \/ p2_start_readings
  \/ p2_stop_readings
  \/ p2_get_readings
  \/ \E t \in TexpArgs : p2_set_time(t)
  \/ \E o \in OffsetArgs : p2_set_offsets(o)
  \/ p3_data
  \/ \E t \in TexpArgs : p3_set_time(t)
  \/ p3_start_stop
  \/ p4_data
  \/ \E t \in TexpArgs : p4_set_time(t)
  \/ p4_start_stop
  \/ p5_data
  \/ \E t \in TexpArgs : p5_setTexp(t)

\* The bound of the model: the clock stops at MaxMillis.
WithinBounds(d) == isReading => millis + d <= MaxMillis

Body ==
  \/ \E d \in TickMs, sx \in Samples, sy \in Samples, sz \in Samples :
       WithinBounds(d) /\ ino_loop(d, sx, sy, sz)
  \/ p2_loop
  \/ \E d \in TickMs, s \in Samples : WithinBounds(d) /\ p3_loop(d, s)
  \/ \E d \in TickMs, s \in Samples : WithinBounds(d) /\ p4_loop(d, s)
  \/ \E s \in Samples : p5_loop(s)

Next ==
  \/ \E ok \in BOOLEAN : setup(ok)
  \/ Request
  \/ NoRequest
  \/ Body

Spec == Init /\ [][Next]_vars

\* ------------------------------------------------- the 1 Hz scenario
\* The countdown sketches with loop() running once a second on a constant
\* reading: a session is started whenever the sketch is Idle and is never
\* stopped by hand.  The first iteration after the start request ends half
\* a second or a full second after it; every later one a second after the
\* one before.
Sample1Hz == <<RInt(2), RZero, RZero>>

Init1Hz == Init /\ sketch \in {"p3", "p4"}

TickMs1Hz == IF measurement_count = 0 THEN {Delay_p3, 1000} ELSE {1000}

Within1Hz(d) == isReading => millis + d <= MaxMillis1Hz

Next1Hz ==
  \/ \E ok \in BOOLEAN : setup(ok)
  \/ ~isReading /\ p3_start_stop
  \/ ~isReading /\ p4_start_stop
  \/ NoRequest
  \/ \E d \in TickMs1Hz : Within1Hz(d) /\ p3_loop(d, Sample1Hz)
  \/ \E d \in TickMs1Hz : Within1Hz(d) /\ p4_loop(d, Sample1Hz)

Spec1Hz == Init1Hz /\ [][Next1Hz]_vars

\* ------------------------------------------ the constant-reading scenario
\* The sketches that keep an accumulator window, with every sensor event
\* reading the same sample and the offsets left at zero.  Sessions are
\* started, stopped and started again, and the averages reset, at will.
TickMsSame == {10000, 30000}

InitSame == Init /\ sketch \in {"ino", "p3", "p4"}

NextSame ==
  \/ \E ok \in BOOLEAN : setup(ok)
  \/ ino_start_readings
  \/ ino_stop_readings
  \/ ino_reset_averages
  \/ p3_start_stop
  \/ p4_start_stop
  \/ NoRequest
  \/ \E d \in TickMsSame :
       WithinBounds(d) /\ ino_loop(d, Sample1Hz, Sample1Hz, Sample1Hz)
  \/ \E d \in TickMsSame : WithinBounds(d) /\ p3_loop(d, Sample1Hz)
  \/ \E d \in TickMsSame : WithinBounds(d) /\ p4_loop(d, Sample1Hz)

SpecSame == InitSame /\ [][NextSame]_vars

\* ------------------------------------- the scenario of the running loop
\* The countdown sketches with loop() running for ever and no manual stop:
\* a session is started whenever the sketch is Idle.  An iteration takes
\* half a second (part_003's delay(500) and little more), ten seconds, or
\* 31 s, which is longer than the countdown of part_003 and than what is
\* left of part_004's after one such iteration.  The clock of the model
\* stops at MaxMillisLive, and a session is started only while a whole
\* countdown and one longest iteration fit before that.
TickMsLive == {Delay_p3, 10000, 31000}

InitLive == Init /\ sketch \in {"p3", "p4"}

WithinLive(d) == isReading => millis + d <= MaxMillisLive

\* A start leaves room for the countdown and the longest iteration.
RoomForSession ==
  millis + 1000 * (IF sketch = "p4" THEN Countdown_p4 ELSE Countdown_p3)
         + 31000 <= MaxMillisLive

NextLive ==
  \/ \E ok \in BOOLEAN : setup(ok)
  \/ ~isReading /\ RoomForSession /\ p3_start_stop
  \/ ~isReading /\ RoomForSession /\ p4_start_stop
  \/ NoRequest
  \/ \E d \in TickMsLive : WithinLive(d) /\ p3_loop(d, Sample1Hz)
  \/ \E d \in TickMsLive : WithinLive(d) /\ p4_loop(d, Sample1Hz)

\* loop() is called again and again: a step is taken whenever one can be.
SpecLive == InitLive /\ [][NextLive]_vars /\ WF_vars(NextLive)

\* D, the countdown a start arms in the running sketch (seconds).
\* ------------------------------------- the scenario of the unit readings
\* The sketches that keep an accumulator window, with Texp set to 8 at will
\* and every sensor event reading one unit of acceleration on one axis:
\* (1,0,0), (0,1,0) or (0,0,1).  An iteration of loop() takes five seconds.
AxisSamples ==
  { <<RInt(1), RZero, RZero>>, <<RZero, RInt(1), RZero>>,
    <<RZero, RZero, RInt(1)>> }

TickMsFold == {5000}

InitFold == Init /\ sketch \in {"ino", "p3", "p4"}

WithinFold(d) == isReading => millis + d <= MaxMillisFold

NextFold ==
  \/ \E ok \in BOOLEAN : setup(ok)
  \/ ino_set_time(RInt(T_0))
  \/ p3_set_time(RInt(T_0))
  \/ p4_set_time(RInt(T_0))
  \/ ino_start_readings
  \/ ino_stop_readings
  \/ p3_start_stop
  \/ p4_start_stop
  \/ NoRequest
  \/ \E d \in TickMsFold, s \in AxisSamples :
       WithinFold(d) /\ ino_loop(d, s, s, s)
  \/ \E d \in TickMsFold, s \in AxisSamples : WithinFold(d) /\ p3_loop(d, s)
  \/ \E d \in TickMsFold, s \in AxisSamples : WithinFold(d) /\ p4_loop(d, s)

SpecFold == InitFold /\ [][NextFold]_vars

CountdownSeconds == IF sketch = "p4" THEN Countdown_p4 ELSE Countdown_p3

\* ================================================================ claims
\* A request handler ran in this step.
HandlerStep == pc = "handleClient" /\ pc' = "body"
\* The body of loop() ran in this step.
BodyStep == pc = "body" /\ pc' = "handleClient"
\* The state right after a handler, before the body of the same iteration.
JustServed(op) == pc = "body" /\ last = op

\* C1: after every start operation the session is Reading and the
\* accumulator window is empty: the three sums and the count are 0.
C1_StartEmptiesWindow ==
  JustServed("start") =>
    isReading /\ accel_sum = VZero /\ measurement_count = 0

\* C2: after every stop operation the session is Idle and the countdown is
\* disarmed, so the countdown is never active while the session is Idle.
C2_StopDisarmsCountdown ==
  /\ JustServed("stop") => ~isReading /\ ~countdown_active
  /\ ~isReading => ~countdown_active

\* The remaining countdown time after the iteration this step runs, as an
\* integer that may go below zero.
RemainingAfterStep ==
  countdown_time - ((millis' - countdown_start_time) \div 1000)

\* C3: while Reading with the countdown active, the iteration of loop() in
\* which the remaining time reaches zero, or in which the countdown flag is
\* cleared, ends with the session Idle.
C3_ExpiryStopsSession ==
  [][(BodyStep /\ isReading /\ countdown_active
        /\ (RemainingAfterStep = 0 \/ ~countdown_active'))
      => ~isReading']_vars

\* C3 witness: a countdown has just run out and the session is Idle.
C3_Witness == last = "expiry" /\ ~isReading /\ ~countdown_active

\* C4: with loop() running once a second the session is not stopped by the
\* countdown before the D-th iteration after the start, and it is no longer
\* Reading once more than D iterations have run.
C4_OneHertzCountdown ==
  /\ [](isReading => measurement_count <= CountdownSeconds)
  /\ [][(BodyStep /\ isReading /\ ~isReading')
        => measurement_count + 1 >= CountdownSeconds]_vars

\* C4 witness: part_003's 30 s countdown has run out at the 30th iteration,
\* 30 s after the start at boot.
C4_Witness ==
  /\ sketch = "p3"
  /\ last = "expiry"
  /\ ~isReading
  /\ millis = 1000 * Countdown_p3

\* The request that stops a session: POST /stop_readings where there is
\* one, POST /start_stop in the sketches that toggle.
StopRequestStep ==
  /\ HandlerStep
  /\ IF sketch \in {"p3", "p4"} THEN last' \in {"start", "stop"}
                                ELSE last' = "stop"

\* C5: the stop request issued again right after a stop (no iteration that
\* samples and no other request between) changes nothing.
C5_StopIdempotent ==
  [][(pc = "handleClient" /\ last = "stop" /\ StopRequestStep)
      => UNCHANGED <<session, window, metrics, config>>]_vars

\* C6: a start request handled while the session is Reading changes neither
\* the session, nor the sums, nor the count, nor the countdown.
C6_StartWhileReadingNoOp ==
  [][(HandlerStep /\ isReading /\ last' = "start")
      => UNCHANGED <<session, window>>]_vars

\* C7: a manual stop leaves the averages and ARE, AREN and Dy as they were.
C7_StopKeepsMetrics ==
  [][(HandlerStep /\ last' = "stop")
      => UNCHANGED <<accel_avg, ARE, AREN, Dy>>]_vars

\* C8: Texp > 0 in every reachable state.
C8_TexpPositive == RSign(Texp) > 0

\* AREN > n/d for a value that is not NaN, on the squares.
Exceeds(v, n, d) ==
  \/ v.k = "inf" /\ v.s > 0
  \/ v.k = "fin" /\ v.s > 0 /\ v.sq[1] * d * d > n * n * v.sq[2]

\* C9: the alerts sent with a snapshot are hav = (AREN > 5.0) and
\* wbv = (AREN > 1.15), strictly: AREN = 5.0 gives no HAV alert and
\* AREN = 1.15 no WBV alert.
C9_StrictThresholds ==
  (JustServed("data") /\ sketch \in {"p3", "p4"}) =>
    /\ (resp.alertaHAV = "excessiva") = Exceeds(AREN, 5, 1)
    /\ (resp.alertaWBV = "excessiva") = Exceeds(AREN, 115, 100)
    /\ resp.alertaHAV \in {"excessiva", "dentro"}
    /\ resp.alertaWBV \in {"excessiva", "dentro"}

\* C9 witness: a snapshot served with AREN exactly 5.0: no HAV alert, a
\* WBV alert.
C9_Witness ==
  /\ JustServed("data")
  /\ sketch \in {"p3", "p4"}
  /\ AREN = OfRat(RInt(5))
  /\ resp.alertaHAV = "dentro"
  /\ resp.alertaWBV = "excessiva"

\* C10: every iteration that recomputes AREN leaves
\* AREN = ARE * sqrt(Texp / T0): AREN >= 0 and AREN^2 * T0 = ARE^2 * Texp.
C10_Normalisation ==
  (sketch \in {"ino", "p3"} /\ last = "tick" /\ pc = "handleClient") =>
    /\ AREN.k = "fin"
    /\ AREN.s >= 0
    /\ RMul(AREN.sq, RInt(T_0)) = RMul(ARE.sq, Texp)

\* C11: whenever Texp = T0 = 8 hours, the AREN computed at a tick equals
\* the ARE computed at that tick (the sketches that compute both in loop()).
C11_IdentityAtT0 ==
  (pc = "handleClient" /\ last = "tick" /\ sketch \in {"ino", "p3", "p5"}
     /\ Texp = RInt(T_0))
    => AREN = ARE

\* C12: after a reset-averages request and before any further sample is
\* folded, the count is 0 and the averages the snapshot reports are 0 on
\* every axis.
C12_ResetEmptiesAverages ==
  last = "reset" => measurement_count = 0 /\ accel_avg = VZero

\* C13: with zero offsets and every tick reading the same sample s, the
\* averages reported after each tick of a session equal s on every axis,
\* whatever happened before the session's start.
C13_ConstantSampleAverages ==
  (pc = "handleClient" /\ last = "tick" /\ isReading)
    => accel_avg = Sample1Hz

\* C14: a set-offsets request replaces offsetX, offsetY and offsetZ together
\* or not at all: the offsets are always the three values of one request
\* (or the initial zeros), only a request handler changes them, and no tick
\* and no snapshot read does.
C14_OffsetsAtomic ==
  /\ [](offset \in ({VZero} \cup (OffsetArgs \ {Absent})))
  /\ [][/\ offset' # offset => HandlerStep
        /\ (BodyStep \/ last' = "data") => offset' = offset]_vars

\* C14 witness: a tick of the .ino has run with the offsets (1,1,0) of a
\* request that changed two axes at once.
C14_Witness ==
  /\ sketch = "ino"
  /\ pc = "handleClient"
  /\ last = "tick"
  /\ offset = <<RInt(1), RInt(1), RZero>>

\* C15: whatever the sensor answers at boot, the system does not halt for
\* ever: the control loop comes to service the requests of the serving
\* layer.
C15_ServesAfterBoot == <>(pc = "handleClient")

\* C16: the count is the number of samples folded since the sums were last
\* zeroed: with every sample equal to s, each sum is count times s.
C16_CountMatchesSums ==
  accel_sum = <<RMul(RInt(measurement_count), Sample1Hz[1]),
                RMul(RInt(measurement_count), Sample1Hz[2]),
                RMul(RInt(measurement_count), Sample1Hz[3])>>

\* All that the countdown of loop() reads: the session flags, the seconds
\* left, and the milliseconds since the countdown was last re-based.
CountdownView ==
  <<isReading, countdown_active, countdown_time,
    millis - countdown_start_time>>

\* C17: a session that is Reading with the countdown armed, and is not
\* stopped by hand, eventually becomes Idle, whatever the iterations of
\* loop() last.  So no iteration taken while Reading with the countdown
\* armed leaves the countdown exactly as it found it: an iteration that
\* does can be followed by the same iteration again, for ever, and the
\* session then never becomes Idle.
C17_CountdownEndsSession ==
  [][(BodyStep /\ isReading /\ countdown_active)
      => CountdownView' # CountdownView]_vars

\* C18: the remaining countdown time stays within 0..D in every reachable
\* state.
C18_RemainingInRange ==
  sketch \in {"ino", "p3", "p4"} =>
    (0 <= countdown_time /\ countdown_time <= CountdownSeconds)

\* C19: right after every start the countdown is active and the remaining
\* time is the full D, however the session before ended.
C19_StartArmsFullCountdown ==
  (JustServed("start") /\ sketch \in {"p3", "p4"}) =>
    countdown_active /\ countdown_time = CountdownSeconds

\* C20: after every tick taken while Reading the averages of the snapshot
\* are the running sums divided by the count, on each axis.
C20_AveragesFollowSums ==
  (pc = "handleClient" /\ last = "tick" /\ sketch \in {"ino", "p3", "p4"}
     /\ measurement_count > 0)
    => accel_avg = VDivInt(accel_sum, measurement_count)

\* What a stop and an expiry are compared on: the session flags, the
\* countdown fields, the accumulator, the averages and the metrics.
StopView ==
  <<isReading, countdown_active, countdown_time, accel_sum,
    measurement_count, accel_avg, ARE, AREN, Dy>>

\* StopView as the stop branch of /start_stop leaves it when the request
\* is served in the current state.
StopOutcome ==
  IF sketch = "p3"
  THEN <<FALSE, countdown_active, countdown_time, VZero, 0, VZero, SZero,
         SZero, DyZero>>
  ELSE IF measurement_count > 0
       THEN LET avg == VDivInt(accel_sum, measurement_count)
                aren == p4_AREN(Resultant(avg), Texp)
            IN  <<FALSE, FALSE, countdown_time, accel_sum, measurement_count,
                  avg, Resultant(avg), aren, p4_Dy(aren, Texp)>>
       ELSE <<FALSE, FALSE, countdown_time, accel_sum, measurement_count,
              accel_avg, ARE, AREN, Dy>>

\* C21: a countdown expiry has the same effect as a manual stop issued in
\* the same state: the step of a manual stop and the step in which the
\* countdown expires both leave the session flags, the countdown fields,
\* the accumulator, the averages and the metrics as a stop served in the
\* state before the step leaves them.
C21_ExpiryIsAStop ==
  [][(/\ sketch \in {"p3", "p4"}
      /\ isReading
      /\ \/ HandlerStep /\ last' = "stop"
         \/ BodyStep /\ last' = "expiry")
     => StopView' = StopOutcome]_vars

\* The stop half of C21 alone: StopOutcome is what a manual stop leaves.
ManualStopOutcome ==
  [][(sketch \in {"p3", "p4"} /\ isReading /\ HandlerStep /\ last' = "stop")
     => StopView' = StopOutcome]_vars

\* C22: while the session is Idle, an iteration of the body of loop() or a
\* snapshot read leaves the accumulator sums, the count, the averages and
\* the metrics ARE, AREN and Dy unchanged.
C22_IdleLeavesMetrics ==
  [][(/\ ~isReading
      /\ \/ BodyStep
         \/ HandlerStep /\ last' = "data")
     => UNCHANGED <<accel_sum, measurement_count, accel_avg, ARE, AREN, Dy>>]_vars

\* C23: no metric is computed with a zero denominator: right after a tick
\* that normalised with Texp = 0 the stored AREN is the sentinel 0, and
\* right after a tick that computed ARE = 0 the crest factor is the
\* sentinel 0.
C23_ZeroDenominatorGivesZero ==
  (pc = "handleClient" /\ last = "tick")
    => /\ (sketch \in {"p3", "p5"} /\ Texp = RZero) => AREN = SZero
       /\ (sketch = "p5" /\ ARE = SZero) => dados.cf = SZero

\* The state right after the metrics were computed: after a tick of the
\* .ino or part_003, or after part_002 served /get_readings while Reading.
JustComputed ==
  \/ sketch \in {"ino", "p3"} /\ pc = "handleClient" /\ last = "tick"
  \/ sketch = "p2" /\ JustServed("data") /\ isReading

\* C24: whenever the metrics are computed with AREN <= 0, the Dy stored is
\* a defined sentinel, not the value the power formula has at a
\* non-positive AREN (an infinity or a NaN).
C24_DySentinel ==
  (JustComputed /\ AREN.k = "fin" /\ AREN.s <= 0) => Dy.k \notin {"inf", "nan"}

\* C25: every snapshot the .ino serves is consistent: once a tick has
\* computed an ARE above zero, the AREN sent is the one computed from the
\* ARE and the Texp sent with it, and the Dy and the calendar fields sent
\* are those computed from that AREN.
C25_SnapshotConsistent ==
  (sketch = "ino" /\ JustServed("data") /\ ARE.k = "fin" /\ ARE.s > 0)
    => /\ AREN = ino_AREN(ARE, Texp)
       /\ Dy = ino_Dy(AREN)
       /\ tempo \in ino_tempo(Dy)

\* C26: the frequency estimate never blocks the serving path: whenever
\* loop() is back at server.handleClient(), the iteration that just ended
\* has read at most one sensor sample for the frequency buffer.
C26_FrequencyNeverBlocks ==
  pc = "handleClient" => captured <= 1

\* The state in which a window's ARE is reported: after a tick of the .ino
\* or part_003, which compute it on every sample, or after a stop of
\* part_004, which computes it then.
WindowReported ==
  \/ sketch \in {"ino", "p3"} /\ pc = "handleClient" /\ last = "tick"
  \/ sketch = "p4" /\ JustServed("stop") /\ measurement_count > 0

\* C27: the ARE reported for a measurement window is the resultant of the
\* window-averaged axes, not of the last sample: after folding (1,0,0),
\* (0,1,0) and (0,0,1) with Texp = 8 the averages are (1/3, 1/3, 1/3) and
\* ARE^2 = AREN^2 = 1/3.
C27_AREOfAverages ==
  WindowReported
    => /\ ARE = Resultant(accel_avg)
       /\ (/\ measurement_count = 3
           /\ accel_sum = <<RInt(1), RInt(1), RInt(1)>>
           /\ Texp = RInt(T_0))
          => /\ accel_avg = <<Rat(1, 3), Rat(1, 3), Rat(1, 3)>>
             /\ ARE = Fin(1, Rat(1, 3))
             /\ AREN = Fin(1, Rat(1, 3))

\* The calendar fields are those of the finite float tempo.dy: they follow
\* the three formulas, lie in their ranges and add up to round(Dy).
CalendarOf(t) ==
  /\ t.anos = Floor(RDiv(t.dy, RInt(365)))
  /\ t.meses = Floor(RDiv(RSub(t.dy, RInt(t.anos * 365)), RInt(30)))
  /\ t.dias = Round(RSub(RSub(t.dy, RInt(t.anos * 365)), RInt(t.meses * 30)))
  /\ t.anos >= 0
  /\ t.meses >= 0 /\ t.meses <= 12
  /\ t.dias >= 0 /\ t.dias <= 30
  /\ t.anos * 365 + t.meses * 30 + t.dias = Round(t.dy)

\* C28: for every Dy >= 0 a tick of the .ino computes, the calendar
\* breakdown is anos = floor(Dy/365), meses = floor((Dy - anos*365)/30),
\* dias = round(Dy - anos*365 - meses*30), with anos, meses, dias >= 0,
\* meses <= 12, dias <= 30 and anos*365 + meses*30 + dias = round(Dy)
\* (which no int equals when Dy is infinite).
C28_CalendarBreakdown ==
  (/\ sketch = "ino" /\ pc = "handleClient" /\ last = "tick"
   /\ Dy.k \in {"zero", "pow", "inf"} /\ Dy.s >= 0)
    => (Dy.k # "inf" /\ CalendarOf(tempo))

\* The finite half of C28 alone.
CalendarOfFiniteDy ==
  (/\ sketch = "ino" /\ pc = "handleClient" /\ last = "tick"
   /\ Dy.k \in {"zero", "pow"} /\ Dy.s >= 0)
    => CalendarOf(tempo)

\* x^2 + y^2 + z^2 of a triple of floats.
SumOfSquares(v) ==
  RAdd(RMul(v[1], v[1]), RAdd(RMul(v[2], v[2]), RMul(v[3], v[3])))

\* C29: the resultant part_005 uses for ARE and AM is symmetric under
\* swapping axes and equals |x| on (x,0,0): right after an iteration that
\* read the event (x,y,z), AM^2 and ARE^2 are x^2 + y^2 + z^2, the same
\* functions give the same values on the event with two axes swapped, and
\* an event on the x axis alone gives ARE = AM = |x|.
C29_ResultantOfAxes ==
  (sketch = "p5" /\ pc = "handleClient" /\ last = "tick")
    => /\ dados.am.k = "fin" /\ dados.am.sq = SumOfSquares(accel)
       /\ ARE.k = "fin" /\ ARE.sq = SumOfSquares(accel)
       /\ \A w \in {<<accel[2], accel[1], accel[3]>>,
                    <<accel[3], accel[2], accel[1]>>,
                    <<accel[1], accel[3], accel[2]>>} :
            calcularAM(w) = dados.am /\ calcularARE(w) = ARE
       /\ (accel[2] = RZero /\ accel[3] = RZero)
            => (dados.am = OfRat(RAbs(accel[1])) /\ ARE = OfRat(RAbs(accel[1])))

\* C30: the crest factor in the snapshot is the peak, the largest absolute
\* single-axis reading, divided by ARE: right after an iteration of
\* part_005 that read (x,y,z) and computed ARE > 0, cf * ARE is
\* max(|x|, |y|, |z|), which is the pico stored with it.
C30_CrestFactorOfPeak ==
  (sketch = "p5" /\ pc = "handleClient" /\ last = "tick"
   /\ ARE.k = "fin" /\ ARE.s > 0)
    => /\ dados.pico = RMax(RAbs(accel[1]), RMax(RAbs(accel[2]), RAbs(accel[3])))
       /\ SMul(dados.cf, ARE) = OfRat(dados.pico)

====
